---- MODULE Spec2Model ----
(***************************************************************************)
(* The Gantt schedule of lg-operations: the task list a project page hands *)
(* to its Gantt chart, the layout and the critical path the chart derives  *)
(* from it on every render, and the reschedule that replaces a task's      *)
(* dates.  Further sections model the drag and link gestures of the chart, *)
(* the edit form, the page's handlers await by await against its backend,  *)
(* and the kanban board with the vendors dialog.                           *)
(*                                                                         *)
(* Two copies of calculateCriticalPath exist.  The konva chart of          *)
(* app/layout.tsx (app/projects/page.tsx holds the same code) works on day *)
(* offsets: its operators carry no prefix.  The google chart of            *)
(* components/GanttChart.tsx works on Date values: its operators are       *)
(* prefixed Chart.                                                         *)
(*                                                                         *)
(* Time: Date.getTime() is counted in ticks, TicksPerDay ticks to the day  *)
(* (the source counts milliseconds and divides by 1000*60*60*24).  A       *)
(* duration "in days" of the source is kept as its tick count, i.e. scaled *)
(* by TicksPerDay; sums, differences and comparisons are unaffected by the *)
(* scale.  Floating-point rounding is not modelled.                        *)
(***************************************************************************)
EXTENDS Integers, Sequences, FiniteSets, TLC

\* Bounds of the model.
MaxTasks == 3
MaxDay == 2
TicksPerDay == 2
MaxClock == 1
MaxSubDayTasks == 2
MaxSessionTasks == 2
MaxMilestones == 1
MaxDragTasks == 2
MaxDragMoves == 2
MaxEditTasks == 2
MaxDependencies == 2
MaxFormTasks == 2
MaxPageTasks == 2
MaxCalls == 2
MaxKanbanTasks == 2

\* Values that stand for the IEEE infinities of the source within the bounds:
\* larger (smaller) than every number the bounded model computes.
Infinity == 1000000
NegInfinity == 0 - Infinity

VARIABLES
  tasks,      \* the tasks prop: Task[] in the order the page holds them
  milestones, \* the milestones prop: Milestone[]
  view,       \* what the last render computed from them
  error,      \* the page's error message ('' when none)
  draggingTask, \* the chart's draggingTask: a task id, 0 for null
  dragStartX,   \* the chart's dragStartX: a number, Null for null
  linkingTask,  \* the chart's linkingTask: a task id, 0 for null
  linkLine,     \* linkStartX, linkStartY, linkEndX, linkEndY: "set" or "null" together
  clockChange,  \* the browser's time zone: the day its clock is set forward, 0 for never
  dragTrace,    \* history: the drag gesture so far
  lastOp,       \* history: the operation that led to this state
  loading,      \* the page's loading flag
  selectedProject,   \* the page's selectedProject: a project id, 0 for null
  rows,         \* the backend: the rows of the tasks table of the selected project
  activityLogs, \* the backend: the rows of the activity_logs table
  calls,        \* the handler calls of the page so far, each with the await it is at
  selectedVendors,   \* the page's selectedVendors
  vendorLinks,       \* the backend: the vendor ids of the project's vendor_project_links
  isVendorModalOpen  \* the page's isVendorModalOpen

vars == <<tasks, milestones, view, error, draggingTask, dragStartX, linkingTask,
          linkLine, clockChange, dragTrace, lastOp, loading, selectedProject, rows,
          activityLogs, calls, selectedVendors, vendorLinks, isVendorModalOpen>>

\* The state of the chart component besides what it draws.
chartState == <<draggingTask, dragStartX, linkingTask, linkLine>>

\* The state of the projects page besides the two lists and the message, and
\* the backend behind it.
pageState == <<loading, selectedProject, rows, activityLogs, calls, selectedVendors,
               vendorLinks, isVendorModalOpen>>

----------------------------------------------------------------------------
\* Generic helpers.

Range(s) == {s[i] : i \in 1..Len(s)}

\* The ids of a list of tasks.
Ids(ts) == {ts[i].id : i \in 1..Len(ts)}

\* tasks.find((t) => t.id === id), for an id of the list.
TaskById(ts, id) == CHOOSE t \in Range(ts) : t.id = id

Min(S) == CHOOSE m \in S : \A x \in S : m <= x
Max(S) == CHOOSE m \in S : \A x \in S : x <= m

Abs(x) == IF x < 0 THEN 0 - x ELSE x

RECURSIVE SortedSeq(_)
\* The elements of a finite set of integers in ascending order.
SortedSeq(S) ==
  IF S = {} THEN <<>> ELSE LET m == Min(S) IN <<m>> \o SortedSeq(S \ {m})

\* Math.max(...xs): -Infinity for no arguments.
MathMax(xs) == IF xs = <<>> THEN NegInfinity ELSE Max(Range(xs))

\* a - b on numbers where a may be Infinity (Infinity - x is Infinity).
JsMinus(a, b) == IF a = Infinity THEN Infinity ELSE a - b

----------------------------------------------------------------------------
\* calculateCriticalPath of app/layout.tsx and app/projects/page.tsx.

\* taskDurations after the initial loop: (end - start) / msPerDay per task id.
TaskDurations(ts) ==
  [id \in {ts[i].id : i \in 1..Len(ts)} |->
     LET i == Max({j \in 1..Len(ts) : ts[j].id = id})
     IN ts[i].end_date - ts[i].start_date]

\* Mutant: earliestStart starts at the task's offset from the least start date.
InitialEarliestStart_FromOrigin(ts) ==
  [id \in {ts[i].id : i \in 1..Len(ts)} |->
     (CHOOSE t \in Range(ts) : t.id = id).start_date
       - Min({ts[i].start_date : i \in 1..Len(ts)})]

\* earliestStart after the initial loop: 0 for every task id.
InitialEarliestStart(ts) == [id \in {ts[i].id : i \in 1..Len(ts)} |-> 0]

\* latestFinish after the initial loop: Infinity for every task id.
InitialLatestFinish(ts) == [id \in {ts[i].id : i \in 1..Len(ts)} |-> Infinity]

RECURSIVE ForwardDeps(_, _, _, _)
\* The inner forEach of forwardPass over one task's dependencies.  An id that
\* is no key of the maps gives undefined + undefined = NaN, and NaN > x is
\* false: the dependency is skipped.
ForwardDeps(es, dur, id, deps) ==
  IF deps = <<>> THEN es
  ELSE LET depId == Head(deps)
           known == depId \in DOMAIN es
           raised == IF known /\ es[depId] + dur[depId] > es[id]
                     THEN [es EXCEPT ![id] = es[depId] + dur[depId]]
                     ELSE es
       IN ForwardDeps(raised, dur, id, Tail(deps))

RECURSIVE ForwardTasks(_, _, _, _)
ForwardTasks(es, dur, ts, i) ==
  IF i > Len(ts) THEN es
  ELSE ForwardTasks(ForwardDeps(es, dur, ts[i].id, ts[i].dependencies), dur, ts, i + 1)

\* forwardPass: one sweep over the tasks in list order.
ForwardPass(ts) == ForwardTasks(InitialEarliestStart(ts), TaskDurations(ts), ts, 1)

\* Object.values(earliestStart): the values by ascending integer key.
ObjectValues(m) == LET keys == SortedSeq(DOMAIN m) IN [i \in 1..Len(keys) |-> m[keys[i]]]

\* maxFinish: the idx-th value of earliestStart (in key order) plus the
\* duration of the idx-th task of the list.
MaxFinish(ts, es, dur) ==
  LET vals == ObjectValues(es)
  IN MathMax([idx \in 1..Len(vals) |-> vals[idx] + dur[ts[idx].id]])

RECURSIVE BackwardOthers(_, _, _, _, _)
\* The inner forEach of backwardPass: every otherTask that lists task id.
BackwardOthers(lf, dur, ts, id, j) ==
  IF j > Len(ts) THEN lf
  ELSE LET other == ts[j]
           finish == JsMinus(lf[other.id], dur[other.id])
           lowered == IF id \in Range(other.dependencies) /\ finish < lf[id]
                      THEN [lf EXCEPT ![id] = finish]
                      ELSE lf
       IN BackwardOthers(lowered, dur, ts, id, j + 1)

RECURSIVE BackwardTasks(_, _, _, _, _)
BackwardTasks(lf, dur, ts, maxFinish, i) ==
  IF i > Len(ts) THEN lf
  ELSE BackwardTasks(
         BackwardOthers([lf EXCEPT ![ts[i].id] = maxFinish], dur, ts, ts[i].id, 1),
         dur, ts, maxFinish, i + 1)

\* backwardPass: one sweep over the tasks in list order.
BackwardPass(ts, es) ==
  LET dur == TaskDurations(ts)
  IN BackwardTasks(InitialLatestFinish(ts), dur, ts, MaxFinish(ts, es, dur), 1)

\* slack of one task as the final filter computes it.
Slack(es, lf, dur, id) == lf[id] - (es[id] + dur[id])

\* The filter's test: slack === 0.
IsCritical(es, lf, dur, id) == Slack(es, lf, dur, id) = 0

\* calculateCriticalPath: the maps it builds and the ids it returns.
CalculateCriticalPath(ts) ==
  LET dur == TaskDurations(ts)
      es == ForwardPass(ts)
      lf == BackwardPass(ts, es)
  IN [taskDurations |-> dur,
      earliestStart |-> es,
      maxFinish |-> MaxFinish(ts, es, dur),
      latestFinish |-> lf,
      criticalPath |-> SelectSeq([i \in 1..Len(ts) |-> ts[i].id],
                                 LAMBDA id : IsCritical(es, lf, dur, id))]

----------------------------------------------------------------------------
\* calculateCriticalPath of components/GanttChart.tsx.  Its maps are Map
\* objects filled as the loops go: a key not yet set reads as undefined.

\* Map.set(key, value).
MapSet(m, key, value) == [k \in (DOMAIN m) \cup {key} |-> IF k = key THEN value ELSE m[k]]

EmptyMap == [k \in {} |-> 0]

RECURSIVE ChartForwardDeps(_, _, _)
\* earliestTaskStart after the loop over the dependencies: raised to the
\* earliest finish of every dependency that already has one.
ChartForwardDeps(ef, cur, deps) ==
  IF deps = <<>> THEN cur
  ELSE LET depId == Head(deps)
       IN ChartForwardDeps(ef,
            IF depId \in DOMAIN ef /\ ef[depId] > cur THEN ef[depId] ELSE cur,
            Tail(deps))

RECURSIVE ChartForwardTasks(_, _, _)
\* The forward pass: earliestStart and earliestFinish, task by task in list order.
ChartForwardTasks(m, ts, i) ==
  IF i > Len(ts) THEN m
  ELSE LET task == ts[i]
           earliestTaskStart == ChartForwardDeps(m.earliestFinish, task.start_date, task.dependencies)
           duration == task.end_date - task.start_date
       IN ChartForwardTasks(
            [earliestStart |-> MapSet(m.earliestStart, task.id, earliestTaskStart),
             earliestFinish |-> MapSet(m.earliestFinish, task.id, earliestTaskStart + duration)],
            ts, i + 1)

ChartForwardPass(ts) ==
  ChartForwardTasks([earliestStart |-> EmptyMap, earliestFinish |-> EmptyMap], ts, 1)

RECURSIVE ChartBackwardOthers(_, _, _, _, _)
\* The inner loop of the backward pass for task id.  latestStart.get(other)
\* of a task the outer loop has not reached is undefined, and calling
\* getTime() on it throws a TypeError.
ChartBackwardOthers(m, fwd, ts, id, j) ==
  IF j > Len(ts) \/ m.threw THEN m
  ELSE LET other == ts[j]
           duration == fwd.earliestFinish[id] - fwd.earliestStart[id]
       IN IF id \notin Range(other.dependencies)
          THEN ChartBackwardOthers(m, fwd, ts, id, j + 1)
          ELSE IF other.id \notin DOMAIN m.latestStart
          THEN [m EXCEPT !.threw = TRUE]
          ELSE LET otherDuration == fwd.earliestFinish[other.id] - fwd.earliestStart[other.id]
                   newLatestFinish == m.latestStart[other.id] - otherDuration
                   lowered == IF newLatestFinish < m.latestFinish[id]
                              THEN [m EXCEPT !.latestFinish = MapSet(@, id, newLatestFinish),
                                             !.latestStart = MapSet(@, id, newLatestFinish - duration)]
                              ELSE m
               IN ChartBackwardOthers(lowered, fwd, ts, id, j + 1)

RECURSIVE ChartBackwardTasks(_, _, _, _, _)
ChartBackwardTasks(m, fwd, ts, maxFinish, i) ==
  IF i > Len(ts) \/ m.threw THEN m
  ELSE LET id == ts[i].id
           duration == fwd.earliestFinish[id] - fwd.earliestStart[id]
           set == [m EXCEPT !.latestFinish = MapSet(@, id, maxFinish),
                            !.latestStart = MapSet(@, id, maxFinish - duration)]
       IN ChartBackwardTasks(ChartBackwardOthers(set, fwd, ts, id, 1), fwd, ts, maxFinish, i + 1)

\* Mutant: the pass formats the date of maxFinish, and toISOString throws a
\* RangeError on the invalid Date that Math.max() of no finish gives.
ChartBackwardPass_FormatsMaxFinish(ts, fwd) ==
  LET maxFinish == MathMax(ObjectValues(fwd.earliestFinish))
  IN IF maxFinish = NegInfinity
     THEN [latestStart |-> EmptyMap, latestFinish |-> EmptyMap, threw |-> TRUE]
     ELSE ChartBackwardTasks([latestStart |-> EmptyMap, latestFinish |-> EmptyMap, threw |-> FALSE],
                             fwd, ts, maxFinish, 1)

\* The backward pass: latestStart and latestFinish, or the TypeError.
ChartBackwardPass(ts, fwd) ==
  LET maxFinish == MathMax(ObjectValues(fwd.earliestFinish))
  IN ChartBackwardTasks([latestStart |-> EmptyMap, latestFinish |-> EmptyMap, threw |-> FALSE],
                        fwd, ts, maxFinish, 1)

\* The test of the last loop: less than a day between earliest and latest start.
ChartIsCritical(es, ls) == Abs(es - ls) < TicksPerDay

\* calculateCriticalPath: the maps it builds and the Set it returns; threw
\* when the TypeError leaves it without a result.
ChartCalculateCriticalPath(ts) ==
  LET fwd == ChartForwardPass(ts)
      bwd == ChartBackwardPass(ts, fwd)
  IN [threw |-> bwd.threw,
      earliestStart |-> fwd.earliestStart,
      earliestFinish |-> fwd.earliestFinish,
      latestStart |-> bwd.latestStart,
      latestFinish |-> bwd.latestFinish,
      criticalPath |-> IF bwd.threw THEN {}
                       ELSE {ts[i].id : i \in {j \in 1..Len(ts) :
                               ChartIsCritical(fwd.earliestStart[ts[j].id], bwd.latestStart[ts[j].id])}}]

----------------------------------------------------------------------------
\* Layout of app/layout.tsx (GanttChartInner).  A number of the layout is a
\* record: a finite one is the fraction num/den in lowest terms, den > 0.

RECURSIVE Gcd(_, _)
Gcd(a, b) == IF b = 0 THEN a ELSE Gcd(b, a % b)

Finite(n, d) ==
  LET g == Gcd(Abs(n), Abs(d))
      sign == IF d < 0 THEN 0 - 1 ELSE 1
  IN [kind |-> "finite", num |-> (sign * n) \div g, den |-> (sign * d) \div g]

PlusInfinity == [kind |-> "Infinity", num |-> 1, den |-> 0]
MinusInfinity == [kind |-> "-Infinity", num |-> 0 - 1, den |-> 0]
NaN == [kind |-> "NaN", num |-> 0, den |-> 0]

\* x / y for finite x and y: a zero divisor gives an infinity, or NaN for 0 / 0.
JsDivide(x, y) ==
  IF y.num = 0
  THEN IF x.num > 0 THEN PlusInfinity ELSE IF x.num < 0 THEN MinusInfinity ELSE NaN
  ELSE Finite(x.num * y.den, x.den * y.num)

\* x * y for finite x: 0 * Infinity is NaN.
JsTimes(x, y) ==
  IF y.kind = "NaN" THEN NaN
  ELSE IF y.kind = "finite" THEN Finite(x.num * y.num, x.den * y.den)
  ELSE IF x.num = 0 THEN NaN
  ELSE IF (x.num > 0) = (y.kind = "Infinity") THEN PlusInfinity ELSE MinusInfinity

\* x / y where x may be NaN and y an infinity: a finite x over an infinity is 0.
JsQuotient(x, y) ==
  IF x.kind = "NaN" \/ y.kind = "NaN" THEN NaN
  ELSE IF y.kind = "finite" THEN JsDivide(x, y)
  ELSE Finite(0, 1)

\* x + n for an integer n: NaN and the infinities absorb it.
JsPlus(x, n) ==
  IF x.kind = "finite" THEN Finite(x.num + n * x.den, x.den) ELSE x

\* Math.round: the nearest integer, a half rounded up; NaN stays NaN.  The
\* result is a number record.
MathRound(x) ==
  IF x.kind = "finite" THEN Finite((2 * x.num + x.den) \div (2 * x.den), 1) ELSE x

\* null as the value of a number | null state.
Null == [kind |-> "null", num |-> 0, den |-> 0]

\* (a.getTime() - b.getTime()) / (1000 * 60 * 60 * 24).
DaysBetween(a, b) == Finite(a - b, TicksPerDay)

\* The values Date.now() may return to a render.
Clock == 0..MaxClock

\* Mutant: the clock is read whatever the list holds.
EarliestDates_ReadsClock(ts) == Clock

\* earliestDate: the least start date.  The reduce starts from
\* tasks[0]?.start_date || Date.now(), which reads the clock only when the
\* list has no first task: then earliestDate is whatever the clock returns.
EarliestDates(ts) ==
  IF ts = <<>> THEN Clock ELSE {Min({ts[i].start_date : i \in 1..Len(ts)})}

\* Mutant: latestDate stays the end date of the first task.
LatestDates_FirstTask(ts, earliestDate) ==
  IF ts = <<>> THEN {now \in Clock : now >= earliestDate} ELSE {ts[1].end_date}

\* latestDate: the greatest end date, or for an empty list a second reading
\* of the clock, not before the first.
LatestDates(ts, earliestDate) ==
  IF ts = <<>> THEN {now \in Clock : now >= earliestDate}
  ELSE {Max({ts[i].end_date : i \in 1..Len(ts)})}

\* pixelsPerDay = 1000 / totalDays.
PixelsPerDay(earliestDate, latestDate) ==
  JsDivide(Finite(1000, 1), DaysBetween(latestDate, earliestDate))

\* getTaskPosition.
GetTaskPosition(task, earliestDate, pixelsPerDay) ==
  [x |-> JsTimes(DaysBetween(task.start_date, earliestDate), pixelsPerDay),
   width |-> JsTimes(DaysBetween(task.end_date, task.start_date), pixelsPerDay)]

\* getMilestonePosition.
GetMilestonePosition(milestone, earliestDate, pixelsPerDay) ==
  JsTimes(DaysBetween(milestone.date, earliestDate), pixelsPerDay)

\* chartHeight = tasks.length * (taskHeight + taskSpacing) + 50.
ChartHeight(ts) == Len(ts) * (30 + 10) + 50

\* One render of the chart: what it draws from the two lists, given the
\* values of earliestDate and latestDate.
RenderView(ts, ms, earliestDate, latestDate) ==
  LET pixelsPerDay == PixelsPerDay(earliestDate, latestDate)
  IN [positions |-> [i \in 1..Len(ts) |-> GetTaskPosition(ts[i], earliestDate, pixelsPerDay)],
      milestoneX |-> [i \in 1..Len(ms) |-> GetMilestonePosition(ms[i], earliestDate, pixelsPerDay)],
      chartHeight |-> ChartHeight(ts),
      critical |-> CalculateCriticalPath(ts),
      chart |-> ChartCalculateCriticalPath(ts)]

----------------------------------------------------------------------------
\* The inputs of the bounded model.

\* Day-aligned instants (what a date input and toISOString().split('T')[0] give).
Days == {d * TicksPerDay : d \in 0..MaxDay}

\* Every instant of the bounded timeline.
Ticks == 0..(MaxDay * TicksPerDay)

Orderings(S) == {p \in [1..Cardinality(S) -> S] : \A i, j \in 1..Cardinality(S) : p[i] = p[j] => i = j}

RECURSIVE ReachableFrom(_, _, _)
\* The ids reachable from the set seen along dependency edges g.
ReachableFrom(g, seen, k) ==
  IF k = 0 THEN seen
  ELSE ReachableFrom(g, seen \cup UNION {g[id] : id \in seen}, k - 1)

\* g: id -> set of ids it depends on, without a cycle.
AcyclicGraph(g) ==
  \A id \in DOMAIN g : id \notin ReachableFrom(g, g[id], Cardinality(DOMAIN g))

\* The acyclic dependency graphs over the ids 1..n.
AcyclicGraphs(n) == {g \in [1..n -> SUBSET (1..n)] : AcyclicGraph(g)}

\* The (start, end) pairs over the set instants with end >= start.
Intervals(instants) == {d \in instants \X instants : d[1] <= d[2]}

\* The task list of n tasks that holds the ids 1..n in the order p, task id
\* with the interval d[id] and the dependencies g[id] (in ascending order).
TaskList(n, p, d, g) ==
  [i \in 1..n |-> [id |-> p[i],
                   start_date |-> d[p[i]][1],
                   end_date |-> d[p[i]][2],
                   dependencies |-> SortedSeq(g[p[i]])]]

\* tasks is a list of at most max tasks with ids 1..n in any order, an
\* interval of the set instants each, and an acyclic dependency graph.
LoadedTasks(max, instants) ==
  \E n \in 0..max :
    \E p \in Orderings(1..n), d \in [1..n -> Intervals(instants)], g \in AcyclicGraphs(n) :
      tasks = TaskList(n, p, d, g)

----------------------------------------------------------------------------
\* The chart as a state machine.

\* milestones is a list of at most max milestones, each on a day of the timeline.
LoadedMilestones(max) ==
  \E n \in 0..max : \E d \in [1..n -> Days] :
    milestones = [i \in 1..n |-> [id |-> i, date |-> d[i]]]

\* The chart is mounted and renders for the first time.
FirstRender ==
  /\ error = ""
  /\ draggingTask = 0
  /\ dragStartX = Null
  /\ linkingTask = 0
  /\ linkLine = "null"
  /\ dragTrace = [task |-> 0, start |-> 0, delta |-> 0, moves |-> 0, lost |-> FALSE]
  /\ lastOp = [op |-> "mount", taskId |-> 0]
  /\ \E earliestDate \in EarliestDates(tasks) :
       \E latestDate \in LatestDates(tasks, earliestDate) :
         view = RenderView(tasks, milestones, earliestDate, latestDate)

\* The page at rest: a project is selected, no handler is at an await, the
\* flag is down.  The specifications whose handlers run to completion do not
\* separate the backend from the list the page holds (tasks stands for the
\* rows as last fetched) and keep the page at rest.
PageAtRest ==
  /\ loading = FALSE
  /\ selectedProject = 1
  /\ rows = <<>>
  /\ activityLogs = <<>>
  /\ calls = <<>>
  /\ selectedVendors = <<>>
  /\ vendorLinks = {}
  /\ isVendorModalOpen = FALSE

\* A project of day-aligned tasks, no milestones.
Init ==
  /\ LoadedTasks(MaxTasks, Days)
  /\ milestones = <<>>
  /\ clockChange = 0
  /\ PageAtRest
  /\ FirstRender

\* A project whose dates carry a time of day (start_date and end_date are
\* strings handed to new Date(), which accepts a time part).
InitSubDay ==
  /\ LoadedTasks(MaxSubDayTasks, Ticks)
  /\ milestones = <<>>
  /\ clockChange = 0
  /\ PageAtRest
  /\ FirstRender

\* A project of day-aligned tasks and milestones that is edited.
InitSession ==
  /\ LoadedTasks(MaxSessionTasks, Days)
  /\ LoadedMilestones(MaxMilestones)
  /\ clockChange = 0
  /\ PageAtRest
  /\ FirstRender

\* The component renders again with the same props (any state change of the
\* page or of the chart itself re-runs the function body).
Render ==
  /\ \E earliestDate \in EarliestDates(tasks) :
       \E latestDate \in LatestDates(tasks, earliestDate) :
         view' = RenderView(tasks, milestones, earliestDate, latestDate)
  /\ lastOp' = [op |-> "render", taskId |-> 0]
  /\ UNCHANGED <<tasks, milestones, error, chartState, clockChange, dragTrace, pageState>>

\* Mutant: the update also moves every task that lists taskId to start at endDate.
WithTaskDates_Cascade(ts, taskId, startDate, endDate) ==
  [i \in 1..Len(ts) |->
     IF ts[i].id = taskId
     THEN [ts[i] EXCEPT !.start_date = startDate, !.end_date = endDate]
     ELSE IF taskId \in Range(ts[i].dependencies)
     THEN [ts[i] EXCEPT !.start_date = endDate,
                        !.end_date = endDate + (ts[i].end_date - ts[i].start_date)]
     ELSE ts[i]]

\* The rows of the tasks table after update({start_date, end_date}).eq('id', taskId).
WithTaskDates(ts, taskId, startDate, endDate) ==
  [i \in 1..Len(ts) |->
     IF ts[i].id = taskId
     THEN [ts[i] EXCEPT !.start_date = startDate, !.end_date = endDate]
     ELSE ts[i]]

\* The messages setError receives.
UpdateTaskDatesError == "Failed to update task dates. Please try again."

LoadTasksError == "Failed to load tasks. Please try again."

\* The lists a select without an order clause may return for the rows ts.
FetchedOrders(ts) == {[i \in 1..Len(ts) |-> ts[p[i]]] : p \in Orderings(1..Len(ts))}

\* handleUpdateTaskDates, run to completion (loading is false again).  The
\* write fails: the message is set and the list stays.  The write succeeds:
\* fetchTasks clears the message and either replaces the list by the rows in
\* the order the query returns them or, failing, sets its message and leaves
\* the list.  Each outcome re-renders the chart.
UpdateTaskDates(taskId, startDate, endDate) ==
  /\ \/ /\ error' = UpdateTaskDatesError
        /\ tasks' = tasks
     \/ /\ error' = ""
        /\ tasks' \in FetchedOrders(WithTaskDates(tasks, taskId, startDate, endDate))
     \/ /\ error' = LoadTasksError
        /\ tasks' = tasks
  /\ \E earliestDate \in EarliestDates(tasks') :
       \E latestDate \in LatestDates(tasks', earliestDate) :
         view' = RenderView(tasks', milestones, earliestDate, latestDate)
  /\ lastOp' = [op |-> "updateTaskDates", taskId |-> taskId]
  /\ UNCHANGED <<milestones, chartState, clockChange, pageState>>

\* The page calls handleUpdateTaskDates for one of its tasks with two dates.
Reschedule ==
  \E taskId \in Ids(tasks) : \E d \in Intervals(Days) :
    /\ UpdateTaskDates(taskId, d[1], d[2])
    /\ UNCHANGED dragTrace

Next == Render

NextSession == Render \/ Reschedule

Spec == Init /\ [][Next]_vars

SpecSubDay == InitSubDay /\ [][Next]_vars

SpecSession == InitSession /\ [][NextSession]_vars

----------------------------------------------------------------------------
\* Dragging a task bar (handleDragStart, handleDragMove, handleDragEnd of
\* app/layout.tsx).

\* The component renders the list ts.
Rerender(ts) ==
  \E earliestDate \in EarliestDates(ts) :
    \E latestDate \in LatestDates(ts, earliestDate) :
      view' = RenderView(ts, milestones, earliestDate, latestDate)

\* The horizontal displacements of the pointer since drag start, in pixels.
Displacements == {0 - 500, 250, 500}

\* The days on which the browser's time zone may set its clock forward.
ClockChanges == 0..MaxDay

\* d = new Date(date); d.setDate(d.getDate() + n); d.toISOString().split('T')[0].
\* new Date of a date-only string is midnight UTC; setDate moves the local
\* calendar date and keeps the local wall-clock time; toISOString gives the
\* UTC date.  When the local clock is set forward between the two instants
\* (days before clockChange lie before it), the new instant is 23:00 UTC of
\* the day before, and the date written is one day short.
LocalShift(date, n) ==
  LET day == date \div TicksPerDay
      short == IF clockChange # 0 /\ day < clockChange /\ day + n >= clockChange
               THEN 1 ELSE 0
  IN (day + n - short) * TicksPerDay

\* handleDragStart: dragStartX is the bar's x plus the label column.
DragStart(taskId) ==
  /\ \E i \in 1..Len(tasks) :
       /\ tasks[i].id = taskId
       /\ dragStartX' = JsPlus(view.positions[i].x, 150)
       /\ dragTrace' = [task |-> taskId, start |-> tasks[i].start_date,
                        delta |-> 0, moves |-> 0, lost |-> FALSE]
  /\ draggingTask' = taskId
  /\ Rerender(tasks)
  /\ lastOp' = [op |-> "dragStart", taskId |-> taskId]
  /\ UNCHANGED <<tasks, milestones, error, linkingTask, linkLine, clockChange, pageState>>

\* handleDragMove with the pointer dx pixels from where the drag started
\* (e.target.x() follows the pointer, so currentX - dragStartX is dx; a
\* dragStartX that is no finite number makes it NaN).  A NaN day count gives
\* an invalid Date, on which toISOString throws: the handler ends there.
\* Otherwise it calls onUpdateTaskDates with both dates moved.
DragMove(taskId, dx) ==
  /\ draggingTask = taskId
  /\ dragStartX # Null
  /\ taskId \in Ids(tasks)
  /\ dragTrace.moves < MaxDragMoves
  /\ \E earliestDate \in EarliestDates(tasks) :
       \E latestDate \in LatestDates(tasks, earliestDate) :
         LET task == TaskById(tasks, taskId)
             deltaX == IF dragStartX.kind = "finite" THEN Finite(dx, 1) ELSE NaN
             deltaDays == JsQuotient(deltaX, PixelsPerDay(earliestDate, latestDate))
             rounded == MathRound(deltaDays)
         IN IF rounded.kind # "finite"
            THEN /\ lastOp' = [op |-> "dragMove", taskId |-> taskId]
                 /\ UNCHANGED <<tasks, milestones, view, error, chartState,
                                clockChange, dragTrace, pageState>>
            ELSE /\ LocalShift(task.start_date, rounded.num) \in Days
                 /\ LocalShift(task.end_date, rounded.num) \in Days
                 /\ UpdateTaskDates(taskId, LocalShift(task.start_date, rounded.num),
                                    LocalShift(task.end_date, rounded.num))
                 /\ dragTrace' = [dragTrace EXCEPT !.delta = rounded.num,
                                                   !.moves = @ + 1,
                                                   !.lost = @ \/ error' # ""]

\* handleDragEnd.
DragEnd ==
  /\ draggingTask # 0
  /\ draggingTask' = 0
  /\ dragStartX' = Null
  /\ Rerender(tasks)
  /\ lastOp' = [op |-> "dragEnd", taskId |-> draggingTask]
  /\ UNCHANGED <<tasks, milestones, error, linkingTask, linkLine, clockChange, dragTrace, pageState>>

\* A project of day-aligned tasks shown in a browser of some time zone.
InitDrag ==
  /\ LoadedTasks(MaxDragTasks, Days)
  /\ milestones = <<>>
  /\ clockChange \in ClockChanges
  /\ PageAtRest
  /\ FirstRender

StartDrag == \E taskId \in Ids(tasks) : DragStart(taskId)

MoveDrag == \E taskId \in Ids(tasks) : \E dx \in Displacements : DragMove(taskId, dx)

NextDrag == StartDrag \/ MoveDrag \/ DragEnd

SpecDrag == InitDrag /\ [][NextDrag]_vars

----------------------------------------------------------------------------
\* Editing dependencies: the link drag of app/layout.tsx (handleLinkStart,
\* handleLinkEnd), and handleUpdateDependencies, handleEditTask and
\* handleDeleteTask of the projects page.

\* handleLinkStart (mouse down on the bar of a task).
LinkStart(taskId) ==
  /\ linkingTask' = taskId
  /\ linkLine' = "set"
  /\ Rerender(tasks)
  /\ lastOp' = [op |-> "linkStart", taskId |-> taskId]
  /\ UNCHANGED <<tasks, milestones, error, draggingTask, dragStartX, clockChange, dragTrace, pageState>>

\* Mutant: the target is put in front of the task's dependencies.
NewDependencies_InFront(task, targetTaskId) == <<targetTaskId>> \o task.dependencies

\* newDependencies of handleLinkEnd: [...(task.dependencies || []), targetTaskId].
NewDependencies(task, targetTaskId) == task.dependencies \o <<targetTaskId>>

UpdateDependenciesError == "Failed to update task dependencies. Please try again."

\* The rows of the tasks table after update({dependencies}).eq('id', taskId).
WithDependencies(ts, taskId, dependencies) ==
  [i \in 1..Len(ts) |->
     IF ts[i].id = taskId THEN [ts[i] EXCEPT !.dependencies = dependencies] ELSE ts[i]]

\* handleUpdateDependencies, run to completion: as handleUpdateTaskDates, for
\* the dependencies column.  The list is written as it is given.
UpdateDependencies(taskId, dependencies) ==
  /\ \/ /\ error' = UpdateDependenciesError
        /\ tasks' = tasks
     \/ /\ error' = ""
        /\ tasks' \in FetchedOrders(WithDependencies(tasks, taskId, dependencies))
     \/ /\ error' = LoadTasksError
        /\ tasks' = tasks
  /\ Rerender(tasks')
  /\ UNCHANGED <<milestones, draggingTask, dragStartX, clockChange, dragTrace, pageState>>

\* handleLinkEnd (mouse up on the bar of targetTaskId).  Without a link in
\* progress, or on the bar the link started from, it clears the link state.
\* When the linking task is no longer in the list it returns as it is.
\* Otherwise it calls onUpdateDependencies and clears the link state.
LinkEnd(targetTaskId) ==
  /\ lastOp' = [op |-> "linkEnd", taskId |-> targetTaskId, source |-> linkingTask]
  /\ IF linkingTask = 0 \/ linkingTask = targetTaskId
     THEN /\ linkingTask' = 0
          /\ linkLine' = "null"
          /\ Rerender(tasks)
          /\ UNCHANGED <<tasks, milestones, error, draggingTask, dragStartX,
                         clockChange, dragTrace, pageState>>
     ELSE IF linkingTask \notin Ids(tasks)
     THEN UNCHANGED <<tasks, milestones, view, error, chartState, clockChange, dragTrace, pageState>>
     ELSE /\ Len(TaskById(tasks, linkingTask).dependencies) < MaxDependencies
          /\ UpdateDependencies(linkingTask,
                                NewDependencies(TaskById(tasks, linkingTask), targetTaskId))
          /\ linkingTask' = 0
          /\ linkLine' = "null"

EditTaskError == "Failed to update task. Please try again."

\* The rows of the tasks table after handleEditTask's update(...).eq('id', editTask.id).
WithEditedTask(ts, taskId, startDate, endDate, dependencies) ==
  [i \in 1..Len(ts) |->
     IF ts[i].id = taskId
     THEN [ts[i] EXCEPT !.start_date = startDate, !.end_date = endDate,
                        !.dependencies = dependencies]
     ELSE ts[i]]

\* handleEditTask for the form filled with these values, run to completion.
\* The fields of a task that the chart does not read are not modelled.
EditTask(taskId, startDate, endDate, dependencies) ==
  /\ \/ /\ error' = EditTaskError
        /\ tasks' = tasks
     \/ /\ error' = ""
        /\ tasks' \in FetchedOrders(
                        WithEditedTask(tasks, taskId, startDate, endDate, dependencies))
     \/ /\ error' = LoadTasksError
        /\ tasks' = tasks
  /\ Rerender(tasks')
  /\ lastOp' = [op |-> "editTask", taskId |-> taskId]
  /\ UNCHANGED <<milestones, chartState, clockChange, dragTrace, pageState>>

RECURSIVE SelectedOptions(_, _)
\* Array.from(e.target.selectedOptions, ...): the chosen ids in option order,
\* which is the order of the task list.
SelectedOptions(ts, chosen) ==
  IF ts = <<>> THEN <<>>
  ELSE (IF Head(ts).id \in chosen THEN <<Head(ts).id>> ELSE <<>>)
       \o SelectedOptions(Tail(ts), chosen)

\* The dependencies the edit form of a task can submit: the stored list when
\* the select is left alone, or any choice among the listed tasks, the task
\* itself included.
FormDependencies(ts, task) ==
  {task.dependencies} \cup {SelectedOptions(ts, chosen) : chosen \in SUBSET Ids(ts)}

DeleteTaskError == "Failed to delete task. Please try again."

\* The rows of the tasks table after delete().eq('id', taskId).
WithoutTask(ts, taskId) == SelectSeq(ts, LAMBDA t : t.id # taskId)

\* handleDeleteTask, run to completion.  The other rows are not touched.
DeleteTask(taskId) ==
  /\ \/ /\ error' = DeleteTaskError
        /\ tasks' = tasks
     \/ /\ error' = ""
        /\ tasks' \in FetchedOrders(WithoutTask(tasks, taskId))
     \/ /\ error' = LoadTasksError
        /\ tasks' = tasks
  /\ Rerender(tasks')
  /\ lastOp' = [op |-> "deleteTask", taskId |-> taskId]
  /\ UNCHANGED <<milestones, chartState, clockChange, dragTrace, pageState>>

\* A project of tasks that each run from day 0 to day 1.
InitEdit ==
  /\ LoadedTasks(MaxEditTasks, Days)
  /\ \A t \in Range(tasks) : t.start_date = 0 /\ t.end_date = TicksPerDay
  /\ milestones = <<>>
  /\ clockChange = 0
  /\ PageAtRest
  /\ FirstRender

StartLink == \E taskId \in Ids(tasks) : LinkStart(taskId)

EndLink == \E targetTaskId \in Ids(tasks) : LinkEnd(targetTaskId)

\* The edit form of a task is submitted with another choice of dependencies.
EditDependencies ==
  \E task \in Range(tasks) : \E dependencies \in FormDependencies(tasks, task) :
    EditTask(task.id, task.start_date, task.end_date, dependencies)

\* The edit form of a task is submitted with other dates.
EditDates ==
  \E task \in Range(tasks) : \E startDate, endDate \in Days :
    EditTask(task.id, startDate, endDate, task.dependencies)

RemoveTask == \E taskId \in Ids(tasks) : DeleteTask(taskId)

NextEdit == StartLink \/ EndLink \/ EditDependencies \/ RemoveTask

SpecEdit == InitEdit /\ [][NextEdit]_vars

\* A project of day-aligned tasks whose dates are edited in the form.
InitForm ==
  /\ LoadedTasks(MaxFormTasks, Days)
  /\ milestones = <<>>
  /\ clockChange = 0
  /\ PageAtRest
  /\ FirstRender

NextForm == EditDates \/ Render

SpecForm == InitForm /\ [][NextForm]_vars

----------------------------------------------------------------------------
\* The projects page and its backend, await by await: handleUpdateTaskDates
\* and handleUpdateDependencies with the logActivity and the fetchTasks they
\* call.  A call runs until its next await.  The backend serves a request at
\* some moment after it was sent, and its answer resumes the call at some
\* moment after that; nothing orders the requests of different calls.

vendorState == <<selectedVendors, vendorLinks, isVendorModalOpen>>

\* old: {...} of the details a handler logs, read from the task it found.
OldValues(handler, task) ==
  IF handler = "handleUpdateTaskDates"
  THEN [start_date |-> task.start_date, end_date |-> task.end_date]
  ELSE [dependencies |-> task.dependencies]

\* The rows after the update a call sends.
WithValues(ts, call) ==
  IF call.handler = "handleUpdateTaskDates"
  THEN WithTaskDates(ts, call.taskId, call.values.start_date, call.values.end_date)
  ELSE WithDependencies(ts, call.taskId, call.values.dependencies)

\* The message a handler sets when its update fails.
UpdateError(handler) ==
  IF handler = "handleUpdateTaskDates" THEN UpdateTaskDatesError ELSE UpdateDependenciesError

\* The row logActivity inserts for a call (call: history, the call it belongs to).
LogEntry(i, call) ==
  [entity_type |-> "Task", entity_id |-> call.taskId, action |-> "Updated",
   details |-> [old |-> call.old, new |-> call.values], call |-> i]

\* No answer yet.
NoResponse == [error |-> FALSE, data |-> <<>>]

\* A handler is called and runs to its first await: setLoading(true),
\* setError(''), tasks.find, and the update is sent.  (before, failed and
\* selects are history: the values of the row when the backend served the
\* update, whether a request of the call failed, and how many selects had
\* been sent when this call had sent its own, 0 before it does.)
Call(handler, taskId, values) ==
  /\ Len(calls) < MaxCalls
  /\ loading' = TRUE
  /\ error' = ""
  /\ calls' = Append(calls, [handler |-> handler, taskId |-> taskId, values |-> values,
                             old |-> OldValues(handler, TaskById(tasks, taskId)),
                             pc |-> "update", response |-> NoResponse,
                             before |-> OldValues(handler, TaskById(tasks, taskId)),
                             failed |-> FALSE, selects |-> 0])
  /\ Rerender(tasks)
  /\ lastOp' = [op |-> handler, taskId |-> taskId, call |-> Len(calls) + 1]
  /\ UNCHANGED <<tasks, milestones, chartState, clockChange, dragTrace, selectedProject,
                 rows, activityLogs, vendorState>>

\* What a step of the backend leaves alone: the page.
UnchangedPage ==
  UNCHANGED <<tasks, milestones, view, error, chartState, clockChange, dragTrace, loading,
              selectedProject, vendorState>>

\* The backend serves update(...).eq('id', taskId) of call i.
BackendUpdate(i) ==
  /\ calls[i].pc = "update"
  /\ \/ /\ rows' = WithValues(rows, calls[i])
        /\ calls' = [calls EXCEPT ![i].pc = "updated",
                                  ![i].before = OldValues(calls[i].handler,
                                                          TaskById(rows, calls[i].taskId))]
     \/ /\ rows' = rows
        /\ calls' = [calls EXCEPT ![i].pc = "updated",
                                  ![i].response = [error |-> TRUE, data |-> <<>>],
                                  ![i].failed = TRUE]
  /\ lastOp' = [op |-> "update", taskId |-> calls[i].taskId, call |-> i]
  /\ UNCHANGED activityLogs
  /\ UnchangedPage

\* The answer to the update resumes call i.  On an error the handler sets its
\* message, skips to setLoading(false) and returns.  Otherwise it calls
\* logActivity, which sends the insert (a project is selected).
UpdateResponse(i) ==
  /\ calls[i].pc = "updated"
  /\ IF calls[i].response.error
     THEN /\ error' = UpdateError(calls[i].handler)
          /\ loading' = FALSE
          /\ calls' = [calls EXCEPT ![i].pc = "done"]
     ELSE /\ calls' = [calls EXCEPT ![i].pc = "insert"]
          /\ UNCHANGED <<error, loading>>
  /\ Rerender(tasks)
  /\ lastOp' = [op |-> "updateResponse", taskId |-> calls[i].taskId, call |-> i]
  /\ UNCHANGED <<tasks, milestones, chartState, clockChange, dragTrace, selectedProject,
                 rows, activityLogs, vendorState>>

\* The backend serves the insert into activity_logs of call i.
BackendInsert(i) ==
  /\ calls[i].pc = "insert"
  /\ \/ /\ activityLogs' = Append(activityLogs, LogEntry(i, calls[i]))
        /\ calls' = [calls EXCEPT ![i].pc = "inserted"]
     \/ /\ activityLogs' = activityLogs
        /\ calls' = [calls EXCEPT ![i].pc = "inserted",
                                  ![i].response = [error |-> TRUE, data |-> <<>>],
                                  ![i].failed = TRUE]
  /\ lastOp' = [op |-> "insert", taskId |-> calls[i].taskId, call |-> i]
  /\ UNCHANGED rows
  /\ UnchangedPage

\* The answer to the insert resumes call i: logActivity returns (an error is
\* written to the console only), the handler calls fetchTasks, which runs to
\* its await (setLoading(true), setError(''), the select is sent), and the
\* handler ends with setLoading(false).
InsertResponse(i) ==
  /\ calls[i].pc = "inserted"
  /\ error' = ""
  /\ loading' = FALSE
  /\ calls' = [calls EXCEPT ![i].pc = "select", ![i].response = NoResponse,
                            ![i].selects = 1 + Cardinality({j \in 1..Len(calls) :
                                                                calls[j].selects > 0})]
  /\ Rerender(tasks)
  /\ lastOp' = [op |-> "insertResponse", taskId |-> calls[i].taskId, call |-> i]
  /\ UNCHANGED <<tasks, milestones, chartState, clockChange, dragTrace, selectedProject,
                 rows, activityLogs, vendorState>>

\* The backend serves select('*').eq('project_id', selectedProject) of call i.
BackendSelect(i) ==
  /\ calls[i].pc = "select"
  /\ \/ \E data \in FetchedOrders(rows) :
          calls' = [calls EXCEPT ![i].pc = "selected",
                                 ![i].response = [error |-> FALSE, data |-> data]]
     \/ calls' = [calls EXCEPT ![i].pc = "selected",
                               ![i].response = [error |-> TRUE, data |-> <<>>],
                               ![i].failed = TRUE]
  /\ lastOp' = [op |-> "select", taskId |-> calls[i].taskId, call |-> i]
  /\ UNCHANGED <<rows, activityLogs>>
  /\ UnchangedPage

\* The answer to the select resumes fetchTasks of call i: setTasks(data) or
\* the message, then setLoading(false).
SelectResponse(i) ==
  /\ calls[i].pc = "selected"
  /\ IF calls[i].response.error
     THEN /\ error' = LoadTasksError
          /\ tasks' = tasks
     ELSE /\ tasks' = calls[i].response.data
          /\ error' = error
  /\ loading' = FALSE
  /\ calls' = [calls EXCEPT ![i].pc = "done"]
  /\ Rerender(tasks')
  /\ lastOp' = [op |-> "selectResponse", taskId |-> calls[i].taskId, call |-> i]
  /\ UNCHANGED <<milestones, chartState, clockChange, dragTrace, selectedProject,
                 rows, activityLogs, vendorState>>

\* A project whose tasks each run from day 0 to day 1, shown as fetched.
InitPage ==
  /\ LoadedTasks(MaxPageTasks, Days)
  /\ \A t \in Range(tasks) : t.start_date = 0 /\ t.end_date = TicksPerDay
  /\ milestones = <<>>
  /\ clockChange = 0
  /\ loading = FALSE
  /\ selectedProject = 1
  /\ rows = tasks
  /\ activityLogs = <<>>
  /\ calls = <<>>
  /\ selectedVendors = <<>>
  /\ vendorLinks = {}
  /\ isVendorModalOpen = FALSE
  /\ FirstRender

\* The whole days a drag move may shift a task by.
DeltaDays == {0 - 1, 1}

\* A drag move of the chart calls onUpdateTaskDates with the dates of the
\* task it holds, both moved by deltaDays.
CallUpdateTaskDates ==
  \E task \in Range(tasks) : \E deltaDays \in DeltaDays :
    /\ task.start_date + deltaDays * TicksPerDay \in Days
    /\ task.end_date + deltaDays * TicksPerDay \in Days
    /\ Call("handleUpdateTaskDates", task.id,
            [start_date |-> task.start_date + deltaDays * TicksPerDay,
             end_date |-> task.end_date + deltaDays * TicksPerDay])

\* A link drag of the chart, released on another task, calls
\* onUpdateDependencies with the dependencies of the task it holds and the target.
CallUpdateDependencies ==
  \E task \in Range(tasks) : \E targetTaskId \in Ids(tasks) \ {task.id} :
    /\ Len(task.dependencies) < MaxDependencies
    /\ Call("handleUpdateDependencies", task.id,
            [dependencies |-> NewDependencies(task, targetTaskId)])

UpdateServed == \E i \in 1..Len(calls) : BackendUpdate(i)

UpdateAnswered == \E i \in 1..Len(calls) : UpdateResponse(i)

InsertServed == \E i \in 1..Len(calls) : BackendInsert(i)

InsertAnswered == \E i \in 1..Len(calls) : InsertResponse(i)

SelectServed == \E i \in 1..Len(calls) : BackendSelect(i)

SelectAnswered == \E i \in 1..Len(calls) : SelectResponse(i)

NextPage ==
  \/ CallUpdateTaskDates
  \/ CallUpdateDependencies
  \/ UpdateServed
  \/ UpdateAnswered
  \/ InsertServed
  \/ InsertAnswered
  \/ SelectServed
  \/ SelectAnswered

SpecPage == InitPage /\ [][NextPage]_vars

----------------------------------------------------------------------------
\* The kanban board and the vendors dialog of the projects page: handleDragEnd
\* and handleUpdateProjectVendors, each run to completion.  A task of this
\* specification carries its status.

\* The keys of columns.
Columns == {"To Do", "In Progress", "Done"}

\* The ids of the tasks the board shows as cards: those of the three columns.
Cards(ts) == {t.id : t \in {u \in Range(ts) : u.status \in Columns}}

\* The over of a DragEndEvent: null, a card (useSortable({ id: task.id }), the
\* only drop targets the board registers, the dragged card included), or a
\* column by the id `${column}-column` its SortableContext carries.
OverTargets(ts) ==
  {[kind |-> "null"]}
    \cup {[kind |-> "card", id |-> id] : id \in Cards(ts)}
    \cup {[kind |-> "column", column |-> column] : column \in Columns}

\* over.id.toString().split('-')[0]: the digits of a card's task id, the
\* column of a column id.
OverColumn(over) ==
  IF over.kind = "card" THEN ToString(over.id) ELSE over.column

UpdateStatusError == "Failed to update task status. Please try again."

\* The rows of the tasks table after update({ status }).eq('id', taskId).
WithStatus(ts, taskId, status) ==
  [i \in 1..Len(ts) |-> IF ts[i].id = taskId THEN [ts[i] EXCEPT !.status = status] ELSE ts[i]]

\* handleDragEnd of the board for the card activeId dropped on over, run to
\* completion.  Without over it returns before it touches loading; otherwise
\* the update fails, or succeeds and the refetch succeeds or fails.
KanbanDragEnd(activeId, over) ==
  /\ lastOp' = [op |-> "handleDragEnd", taskId |-> activeId]
  /\ IF over.kind = "null"
     THEN UNCHANGED <<tasks, view, error, loading>>
     ELSE /\ \/ /\ error' = UpdateStatusError
                /\ tasks' = tasks
             \/ /\ error' = ""
                /\ tasks' \in FetchedOrders(WithStatus(tasks, activeId, OverColumn(over)))
             \/ /\ error' = LoadTasksError
                /\ tasks' = tasks
          /\ loading' = FALSE
          /\ Rerender(tasks')
  /\ UNCHANGED <<milestones, chartState, clockChange, dragTrace, selectedProject, rows,
                 activityLogs, calls, vendorState>>

\* The ids of the vendors table.
Vendors == {1, 2}

UpdateProjectVendorsError == "Failed to update project vendors. Please try again."

\* handleUpdateProjectVendors, run to completion.  Without a selected project
\* it returns after setLoading(true) and setError('').  Otherwise the delete
\* of the project's links succeeds or fails unnoticed, and the insert of the
\* new ones fails with the message, or succeeds and the dialog closes.
UpdateProjectVendors(vendorIds) ==
  /\ lastOp' = [op |-> "handleUpdateProjectVendors", taskId |-> 0]
  /\ error' \in {"", UpdateProjectVendorsError}
  /\ IF selectedProject = 0
     THEN /\ loading' = TRUE
          /\ error' = ""
          /\ UNCHANGED vendorState
     ELSE /\ loading' = FALSE
          /\ \E kept \in {{}, vendorLinks} :
               IF error' = ""
               THEN /\ vendorLinks' = kept \cup Range(vendorIds)
                    /\ selectedVendors' = vendorIds
                    /\ isVendorModalOpen' = FALSE
               ELSE /\ vendorLinks' = kept
                    /\ UNCHANGED <<selectedVendors, isVendorModalOpen>>
  /\ Rerender(tasks)
  /\ UNCHANGED <<tasks, milestones, chartState, clockChange, dragTrace, selectedProject,
                 rows, activityLogs, calls>>

\* The Manage Vendors button: setIsVendorModalOpen(true).
OpenVendorModal ==
  /\ selectedProject # 0
  /\ ~isVendorModalOpen
  /\ isVendorModalOpen' = TRUE
  /\ Rerender(tasks)
  /\ lastOp' = [op |-> "openVendorModal", taskId |-> 0]
  /\ UNCHANGED <<tasks, milestones, error, chartState, clockChange, dragTrace, loading,
                 selectedProject, rows, activityLogs, calls, selectedVendors, vendorLinks>>

\* The select of the dialog changes: setSelectedVendors(selected), the chosen
\* vendor ids in option order.
SelectVendors ==
  /\ isVendorModalOpen
  /\ \E chosen \in SUBSET Vendors : selectedVendors' = SortedSeq(chosen)
  /\ Rerender(tasks)
  /\ lastOp' = [op |-> "selectVendors", taskId |-> 0]
  /\ UNCHANGED <<tasks, milestones, error, chartState, clockChange, dragTrace, loading,
                 selectedProject, rows, activityLogs, calls, vendorLinks, isVendorModalOpen>>

\* The page with no project selected and no task, or with a project whose
\* tasks, each from day 0 to day 1 and in a column, are on the board.
InitKanban ==
  /\ selectedProject \in {0, 1}
  /\ \E n \in 0..(IF selectedProject = 0 THEN 0 ELSE MaxKanbanTasks) :
       \E p \in Orderings(1..n), status \in [1..n -> Columns] :
         tasks = [i \in 1..n |-> [id |-> p[i], status |-> status[p[i]],
                                  start_date |-> 0, end_date |-> TicksPerDay,
                                  dependencies |-> <<>>]]
  /\ milestones = <<>>
  /\ clockChange = 0
  /\ loading = FALSE
  /\ rows = <<>>
  /\ activityLogs = <<>>
  /\ calls = <<>>
  /\ selectedVendors = <<>>
  /\ vendorLinks = {}
  /\ isVendorModalOpen = FALSE
  /\ FirstRender

\* A card of the board is dragged and dropped.
DropCard ==
  \E activeId \in Cards(tasks) : \E over \in OverTargets(tasks) : KanbanDragEnd(activeId, over)

\* handleUpdateProjectVendors is called with the vendors chosen in the dialog.
SubmitVendors == \E vendorIds \in {selectedVendors} : UpdateProjectVendors(vendorIds)

NextKanban == DropCard \/ SubmitVendors \/ OpenVendorModal \/ SelectVendors

SpecKanban == InitKanban /\ [][NextKanban]_vars

----------------------------------------------------------------------------
\* The reference two-pass computation the claims compare the code with
\* (instants in ticks; defined for an acyclic list of tasks).

RefDuration(ts, id) == TaskById(ts, id).end_date - TaskById(ts, id).start_date

\* The ids of the tasks that list id as a dependency.
Dependents(ts, id) == {t.id : t \in {u \in Range(ts) : id \in Range(u.dependencies)}}

RECURSIVE RefEarliestStart(_, _)
\* max(task.start, max over the dependencies d of earliest_finish[d]).
RefEarliestStart(ts, id) ==
  LET task == TaskById(ts, id)
      deps == Range(task.dependencies) \cap Ids(ts)
  IN Max({task.start_date} \cup {RefEarliestStart(ts, d) + RefDuration(ts, d) : d \in deps})

RefEarliestFinish(ts, id) == RefEarliestStart(ts, id) + RefDuration(ts, id)

RefProjectFinish(ts) == Max({RefEarliestFinish(ts, id) : id \in Ids(ts)})

RECURSIVE RefLatestFinish(_, _)
\* project_finish, tightened to latest_finish[t] - duration[t] over every edge id -> t.
RefLatestFinish(ts, id) ==
  Min({RefProjectFinish(ts)} \cup
      {RefLatestFinish(ts, t) - RefDuration(ts, t) : t \in Dependents(ts, id)})

RefSlack(ts, id) == RefLatestFinish(ts, id) - RefEarliestFinish(ts, id)

RefCriticalPath(ts) == {id \in Ids(ts) : RefSlack(ts, id) = 0}

----------------------------------------------------------------------------
\* Claims.

\* C1: calculateCriticalPath returns exactly the tasks whose slack is zero
\* under the reference two-pass computation, for every acyclic list of
\* day-aligned tasks in every input order.
C1_CriticalPathIsReference ==
  Range(view.critical.criticalPath) = RefCriticalPath(tasks)

\* C2: after the forward pass, earliest_start[b] >= earliest_finish[a] for
\* every task b that lists a as a dependency, wherever a and b stand in the list.
C2_ForwardPassRespectsEdges ==
  \A b \in Range(tasks) : \A a \in Range(b.dependencies) :
    view.critical.earliestStart[b.id] >=
      view.critical.earliestStart[a] + view.critical.taskDurations[a]

\* C3: a task without dependencies has earliest_start equal to its own
\* declared start, as an offset from the timeline origin.
C3_NoDependencyStartsAtOwnStart ==
  \A t \in Range(tasks) :
    t.dependencies = <<>> =>
      \A earliestDate \in EarliestDates(tasks) :
        view.critical.earliestStart[t.id] = t.start_date - earliestDate

\* C4: the critical path of a non-empty acyclic list is non-empty.
C4_CriticalPathNonEmpty ==
  tasks # <<>> => view.critical.criticalPath # <<>>

\* C5: every task of an acyclic list with end >= start has slack >= 0.
C5_SlackNonNegative ==
  \A id \in Ids(tasks) :
    Slack(view.critical.earliestStart, view.critical.latestFinish,
          view.critical.taskDurations, id) >= 0

\* C6: project_finish is the maximum over the tasks of earliest_start plus
\* the duration of that same task.
C6_MaxFinishPairsSameTask ==
  tasks # <<>> =>
    view.critical.maxFinish =
      Max({view.critical.earliestStart[id] + view.critical.taskDurations[id] : id \in Ids(tasks)})

\* C7: after the backward pass, latest_finish[d] <= latest_finish[t] -
\* duration[t] for every task t that lists d as a dependency.
C7_BackwardPassTightensEdges ==
  \A t \in Range(tasks) : \A d \in Range(t.dependencies) :
    view.critical.latestFinish[d] <=
      view.critical.latestFinish[t.id] - view.critical.taskDurations[t.id]
\* C8: a task is reported as critical iff its slack is exactly 0: a task
\* whose earliest and latest start differ by less than a day, but differ, is
\* not reported.  Stated of both copies; the Date-based copy reports
\* Math.abs(es - ls) < one day.
C8_CriticalIffZeroSlack ==
  /\ \A id \in Ids(tasks) :
       id \in Range(view.critical.criticalPath) <=>
         Slack(view.critical.earliestStart, view.critical.latestFinish,
               view.critical.taskDurations, id) = 0
  /\ ~view.chart.threw =>
       \A id \in Ids(tasks) :
         id \in view.chart.criticalPath <=>
           view.chart.latestStart[id] = view.chart.earliestStart[id]

\* The computed earliest start and finish of task id in a view, of both copies.
EarliestValues(v, id) ==
  <<v.critical.earliestStart[id],
    v.critical.earliestStart[id] + v.critical.taskDurations[id],
    v.chart.earliestStart[id],
    v.chart.earliestFinish[id]>>

\* The computed latest start and finish of task id in a view, of both copies
\* (the Date-based copy has none when it threw).
LatestValues(v, id) ==
  <<v.critical.latestFinish[id] - v.critical.taskDurations[id],
    v.critical.latestFinish[id]>>
  \o (IF v.chart.threw THEN <<>>
      ELSE <<v.chart.latestStart[id], v.chart.latestFinish[id]>>)

\* This step reschedules a task that no task lists as a dependency.
ReschedulesLeaf ==
  /\ lastOp'.op = "updateTaskDates"
  /\ error' = ""
  /\ Len(tasks') = Len(tasks)
  /\ \A i \in 1..Len(tasks) :
       /\ tasks'[i].id = tasks[i].id
       /\ tasks'[i].id # lastOp'.taskId => tasks'[i] = tasks[i]
  /\ Dependents(tasks, lastOp'.taskId) = {}

\* C9 as claimed: rescheduling a task without dependents leaves the earliest
\* and the latest start and finish of every other task unchanged.
C9_LeafRescheduleKeepsAllValues ==
  [][ReschedulesLeaf =>
       \A o \in Ids(tasks) \ {lastOp'.taskId} :
         /\ EarliestValues(view', o) = EarliestValues(view, o)
         /\ LatestValues(view', o) = LatestValues(view, o)]_vars

\* C9 as amended: rescheduling a task without dependents leaves the earliest
\* start and earliest finish of every other task unchanged (their latest start
\* and finish move with the project finish).
C9_LeafRescheduleKeepsEarliestValues ==
  [][ReschedulesLeaf =>
       \A o \in Ids(tasks) \ {lastOp'.taskId} :
         EarliestValues(view', o) = EarliestValues(view, o)]_vars

\* C9 witness: a task without dependents, which depends on another task, has
\* been rescheduled and now ends after that task.
C9_Witness ==
  /\ lastOp.op = "updateTaskDates"
  /\ error = ""
  /\ Dependents(tasks, lastOp.taskId) = {}
  /\ \E t, o \in Range(tasks) :
       /\ t.id = lastOp.taskId
       /\ o.id \in Range(t.dependencies)
       /\ t.end_date > o.end_date

C11_RescheduleWritesOneTask ==
  [][lastOp'.op = "updateTaskDates" =>
       /\ Ids(tasks') = Ids(tasks)
       /\ \A id \in Ids(tasks) :
            /\ TaskById(tasks', id).dependencies = TaskById(tasks, id).dependencies
            /\ id # lastOp'.taskId => TaskById(tasks', id) = TaskById(tasks, id)]_vars

\* C11 witness: a task has been rescheduled to start after a task that
\* depends on it starts.
C11_Witness ==
  /\ lastOp.op = "updateTaskDates"
  /\ error = ""
  /\ \E o \in Range(tasks) :
       /\ lastOp.taskId \in Range(o.dependencies)
       /\ TaskById(tasks, lastOp.taskId).start_date > o.start_date

\* This step is a drag move whose reschedule was written and fetched.
DragMoveApplied ==
  /\ draggingTask # 0
  /\ lastOp'.op = "updateTaskDates"
  /\ error' = ""
  /\ dragTrace'.moves = dragTrace.moves + 1

\* C12: a reschedule emitted by a drag move shifts the task's start and its
\* end by the same whole number of days, round(displacement / pixelsPerDay),
\* so the task keeps its duration.
C12_DragMoveShiftsBothDates ==
  [][DragMoveApplied =>
       LET before == TaskById(tasks, draggingTask)
           after == TaskById(tasks', draggingTask)
       IN /\ after.start_date - before.start_date = dragTrace'.delta * TicksPerDay
          /\ after.end_date - before.end_date = dragTrace'.delta * TicksPerDay
          /\ after.end_date - after.start_date = before.end_date - before.start_date]_vars

\* C13: at the end of a drag gesture whose moves were all written and
\* fetched, the task's start is its start at drag start plus
\* round(total displacement / pixelsPerDay) days.  Stated for a time zone
\* without clock change.
C13_DragGestureShiftsByTotal ==
  (/\ lastOp.op = "dragEnd"
   /\ clockChange = 0
   /\ dragTrace.moves > 0
   /\ ~dragTrace.lost
   /\ dragTrace.task \in Ids(tasks))
  => TaskById(tasks, dragTrace.task).start_date =
       dragTrace.start + dragTrace.delta * TicksPerDay

\* The dependency edges among the tasks of a list.
DependencyGraph(ts) == [id \in Ids(ts) |-> Range(TaskById(ts, id).dependencies) \cap Ids(ts)]

\* C14: a link drag from task S released on another task T, written and
\* fetched, leaves S with its former dependencies followed by T and every
\* other task with its dependencies; released on S itself it changes no task,
\* sets no message and ends the link.
C14_LinkAppendsTargetToSource ==
  [][lastOp'.op = "linkEnd" =>
       LET S == linkingTask
           T == lastOp'.taskId
       IN /\ (S # 0 /\ S # T /\ S \in Ids(tasks) /\ error' = "") =>
               /\ Ids(tasks') = Ids(tasks)
               /\ TaskById(tasks', S).dependencies =
                    TaskById(tasks, S).dependencies \o <<T>>
               /\ \A id \in Ids(tasks) \ {S} :
                    TaskById(tasks', id).dependencies = TaskById(tasks, id).dependencies
          /\ S = T =>
               /\ tasks' = tasks
               /\ error' = error
               /\ linkingTask' = 0]_vars

\* C14 witness: a link from a task that had a dependency has been released on
\* another task and written.
C14_Witness ==
  /\ lastOp.op = "linkEnd"
  /\ error = ""
  /\ lastOp.source \in Ids(tasks) \ {lastOp.taskId}
  /\ Len(TaskById(tasks, lastOp.source).dependencies) = 2
  /\ TaskById(tasks, lastOp.source).dependencies[2] = lastOp.taskId

\* C15: after any sequence of dependency edits no task depends on itself and
\* the dependencies among the tasks form no cycle.
C15_DependenciesStayAcyclic ==
  AcyclicGraph(DependencyGraph(tasks))

\* C16: a dependency update whose list contains the task's own id is
\* rejected: no step leaves a task with its own id among its dependencies
\* unless it was there before.
C16_SelfDependencyRejected ==
  [][\A t \in Range(tasks') :
       t.id \in Range(t.dependencies) =>
         /\ t.id \in Ids(tasks)
         /\ t.id \in Range(TaskById(tasks, t.id).dependencies)]_vars

\* C17: a dependency update whose list contains an id of no task fails as a
\* whole: after a submit of the edit form that is written and fetched, the
\* task's dependencies are ids of tasks of the collection.
C17_UnknownDependencyRejected ==
  [][(/\ lastOp'.op = "editTask"
      /\ error' = ""
      /\ lastOp'.taskId \in Ids(tasks'))
     => Range(TaskById(tasks', lastOp'.taskId).dependencies) \subseteq Ids(tasks)]_vars

\* C18: a reschedule or task edit with an end before the start is rejected,
\* so every stored task has end >= start.
C18_StoredEndNotBeforeStart ==
  \A t \in Range(tasks) : t.end_date >= t.start_date

\* The least start and the greatest end of a non-empty list.
Origin(ts) == Min({ts[i].start_date : i \in 1..Len(ts)})

Finish(ts) == Max({ts[i].end_date : i \in 1..Len(ts)})

\* C19: when the total span is zero (every task starts and ends at one
\* instant), pixelsPerDay is the finite budget 1000 and every task has x = 0
\* and width = 0.
C19_ZeroSpanLayoutIsFinite ==
  (tasks # <<>> /\ Finish(tasks) = Origin(tasks)) =>
    /\ PixelsPerDay(Origin(tasks), Finish(tasks)) = Finite(1000, 1)
    /\ \A i \in 1..Len(tasks) :
         /\ view.positions[i].x = Finite(0, 1)
         /\ view.positions[i].width = Finite(0, 1)

\* C20: for a list of positive span, every task has
\* x = (start - least start) * 1000 / span and width = (end - start) * 1000 / span,
\* hence 0 <= x and x + width <= 1000.
C20_PositiveSpanLayoutFitsBudget ==
  (tasks # <<>> /\ Finish(tasks) > Origin(tasks)) =>
    LET span == Finish(tasks) - Origin(tasks)
    IN \A i \in 1..Len(tasks) :
         LET x == view.positions[i].x
             width == view.positions[i].width
         IN /\ x = Finite((tasks[i].start_date - Origin(tasks)) * 1000, span)
            /\ width = Finite((tasks[i].end_date - tasks[i].start_date) * 1000, span)
            /\ x.num >= 0
            /\ x.num * width.den + width.num * x.den <= 1000 * x.den * width.den

\* C20 witness: a rendered list of positive span in which the first task is
\* neither the first to start nor the last to end.
C20_Witness ==
  /\ Len(tasks) >= 2
  /\ tasks[1].start_date > Origin(tasks)
  /\ tasks[1].end_date < Finish(tasks)
  /\ view.positions[1].x.kind = "finite"
  /\ view.positions[1].x.num > 0

\* C21: calculateCriticalPath of an empty task list returns an empty set and
\* raises no error (both copies; Math.max() of no finish is -Infinity, which
\* no loop reads).
C21_EmptyListHasEmptyCriticalPath ==
  tasks = <<>> =>
    /\ view.critical.criticalPath = <<>>
    /\ view.critical.maxFinish = NegInfinity
    /\ ~view.chart.threw
    /\ view.chart.criticalPath = {}

\* C21 witness: the chart has rendered an empty task list again.
C21_Witness ==
  /\ tasks = <<>>
  /\ lastOp.op = "render"

\* C24: a drag gesture commits one reschedule: a drag move calls
\* onUpdateTaskDates zero times and writes nothing, and the release of a
\* gesture that moved calls it once.
C24_DragCommitsOnRelease ==
  [][/\ dragTrace'.moves = dragTrace.moves + 1 =>
          /\ lastOp'.op # "updateTaskDates"
          /\ tasks' = tasks
     /\ (draggingTask # 0 /\ draggingTask' = 0 /\ dragTrace.delta # 0) =>
          lastOp'.op = "updateTaskDates"]_vars

\* C25: the Date-based copy of calculateCriticalPath and the day-offset copy
\* (app/layout.tsx; app/projects/page.tsx holds the same statements) return
\* the same set of task ids for every acyclic list of day-aligned tasks in
\* every input order.
C25_CopiesReturnSameSet ==
  /\ ~view.chart.threw
  /\ Range(view.critical.criticalPath) = view.chart.criticalPath

\* A list without a repeated element.
NoDuplicates(s) == \A i, j \in 1..Len(s) : s[i] = s[j] => i = j

\* C30: after every call of handleLinkEnd the link state is idle (linkingTask
\* and the link coordinates are null), also when the source task has left the
\* list; and no task's dependency list holds an id twice.
C30_LinkEndsIdleWithoutDuplicates ==
  /\ lastOp.op = "linkEnd" => (linkingTask = 0 /\ linkLine = "null")
  /\ \A t \in Range(tasks) : NoDuplicates(t.dependencies)

\* The calls that have started and not completed (update, activity log, refetch).
InFlight == {i \in 1..Len(calls) : calls[i].pc # "done"}

\* C22: mutations of the task collection are serialized: while one
\* handleUpdateTaskDates or handleUpdateDependencies has started and not
\* completed, no second one is accepted.
C22_MutationsAreSerialized ==
  Cardinality(InFlight) <= 1

\* C23: when a reschedule or a dependency update is issued, the task list the
\* page holds has the new values at once, before the backend answers.
C23_SnapshotReflectsIssuedUpdate ==
  [][lastOp'.op \in {"handleUpdateTaskDates", "handleUpdateDependencies"} =>
       OldValues(lastOp'.op, TaskById(tasks', lastOp'.taskId)) =
         calls'[lastOp'.call].values]_vars

\* Every call has completed and no request of any call failed.
Settled ==
  /\ calls # <<>>
  /\ \A i \in 1..Len(calls) : calls[i].pc = "done" /\ ~calls[i].failed

\* C26: once every call has completed (none having failed), the list the page
\* holds is the backend's rows, and the dates stored for a task are those of
\* the reschedule issued last for it.
C26_SettledListIsBackendRows ==
  Settled =>
    /\ Range(tasks) = Range(rows)
    /\ \A i \in 1..Len(calls) :
         (/\ calls[i].handler = "handleUpdateTaskDates"
          /\ \A j \in (i + 1)..Len(calls) :
               ~(calls[j].handler = calls[i].handler /\ calls[j].taskId = calls[i].taskId))
         => OldValues(calls[i].handler, TaskById(rows, calls[i].taskId)) = calls[i].values

\* C28: when the update of a reschedule or dependency update fails, the
\* handler sets its message, inserts no activity-log row, sends no refetch,
\* leaves the task list and puts loading down; when it succeeds, by the time
\* the refetch is sent exactly one activity-log row of the call exists, and
\* it records the values the row had before the update and the new ones.
C28_FailureAndSuccessPaths ==
  [][/\ (lastOp'.op = "updateResponse" /\ calls[lastOp'.call].response.error) =>
          /\ error' = UpdateError(calls[lastOp'.call].handler)
          /\ activityLogs' = activityLogs
          /\ tasks' = tasks
          /\ loading' = FALSE
          /\ calls'[lastOp'.call].pc = "done"
     /\ lastOp'.op = "insertResponse" =>
          LET mine == {k \in 1..Len(activityLogs') :
                         activityLogs'[k].call = lastOp'.call}
          IN /\ Cardinality(mine) = 1
             /\ \A k \in mine :
                  activityLogs'[k].details =
                    [old |-> calls[lastOp'.call].before, new |-> calls[lastOp'.call].values]]_vars

\* C27: after any drop of a card of the board, on a column or on a card, every
\* stored status is one of the three columns, so every task is in one column.
C27_StatusIsAColumn ==
  \A t \in Range(tasks) : t.status \in Columns

====
